---- MODULE Spec2Model ----
(***************************************************************************)
(* Model of the install advisor (the platform-aware PWAInstallPrompt       *)
(* component) of the runner game: platform classification, the 24h         *)
(* dismissal cooldown, the platform listeners, the three timers and the    *)
(* install / dismiss handlers.  Time is in milliseconds.                   *)
(***************************************************************************)
EXTENDS Integers, Sequences, FiniteSets

VARIABLES
    env,                \* environment signals read by detectPlatform
    storage,            \* localStorage entry under DISMISS_KEY
    now,                \* Date.now()
    session,            \* number of mounts so far; the live instance is `session`
    mounted,            \* the component instance is mounted
    detected,           \* promptType returned by detectPlatform at mount
    deferredPrompt,     \* useState: captured BeforeInstallPromptEvent (0 = null)
    visible,            \* useState: visible
    promptType,         \* useState: promptType
    nativeFired,        \* closure variable of the effect
    bipListener,        \* 'beforeinstallprompt' handler registered on window
    installedListeners, \* sessions whose 'appinstalled' listener is on window
    timers,             \* pending setTimeout callbacks
    awaiting,           \* handleInstall calls suspended on userChoice
    signals,            \* number of beforeinstallprompt events delivered
    appInstalled,       \* the browser has installed the app since the page load
    mountTime,          \* history: Date.now() at the last mount
    unmountedEarly,     \* history: the instance was unmounted before its fallback delay passed
    installedSeen,      \* history: appinstalled handled by the mounted instance
    dismissedSeen,      \* history: handleDismiss ran in the mounted instance
    lastOutcome,        \* history: userChoice outcome last handled in this session
    lastSignalAt,       \* history: time of the last readiness signal of this session
    lastDismissAt,      \* history: time of the last dismissal (NaN: never)
    lastDismissSession, \* history: session of the last dismissal (0: before the page load)
    language,           \* useI18n state: the active language
    langStorage,        \* localStorage entry under 'runner-game-language'
    dictShape,          \* which entries of the dictionary are present, empty or missing
    lastKey,            \* the key of the lookup now displayed
    lastResult,         \* the text that lookup returned
    lastSet,            \* history: argument of the last setLanguage call
    prevSet,            \* history: argument of the setLanguage call before it
    restarted           \* history: the store was re-created since the last setLanguage

advisorVars == <<env, storage, now, session, mounted, detected, deferredPrompt, visible,
          promptType, nativeFired, bipListener, installedListeners, timers,
          awaiting, signals, appInstalled, mountTime, unmountedEarly, installedSeen,
          dismissedSeen, lastOutcome, lastSignalAt, lastDismissAt,
          lastDismissSession>>

i18nVars == <<language, langStorage, dictShape, lastKey, lastResult, lastSet, prevSet,
              restarted>>

vars == <<advisorVars, i18nVars>>

----------------------------------------------------------------------------
(* Program constants *)

NativeDelayMs == 1500
\* variant: the native delay used for the static variants
StaticDelayShort == NativeDelayMs

StaticDelayMs == 2500
FallbackDelayMs == 3500
CooldownMs == 24 * 60 * 60 * 1000

(* Bounds of the model *)

Epoch == 100000000      \* Date.now() when the page is loaded
StepMs == 1000          \* largest amount of time that passes in one step
MaxElapsed == 5000      \* time explored after the page load and after a long wait
MaxSessions == 2        \* mounts of the component
MaxSignals == 2         \* beforeinstallprompt events delivered
MaxJumps == 1           \* long waits (about one cooldown window)

JumpMs == CooldownMs - StepMs

----------------------------------------------------------------------------
(* Environment: the user agent is the set of tokens occurring in it. *)

IOSTokens == {"iPad", "iPhone", "iPod"}
InAppTokens == {"micromessenger", "qq/", "wxwork", "dingtalk", "weibo"}
OtherBrowserTokens == {"Chrome", "CriOS", "FxiOS", "EdgiOS", "OPiOS"}

\* The case folding of a regular expression with the /i flag.
Fold(tok) ==
    CASE tok = "MicroMessenger" -> "micromessenger"
      [] tok = "QQ/" -> "qq/"
      [] tok = "DingTalk" -> "dingtalk"
      [] tok = "Weibo" -> "weibo"
      [] tok = "Android" -> "android"
      [] tok = "ANDROID" -> "android"
      [] OTHER -> tok

\* variant: the display-mode media query only
isStandaloneMediaOnly(e) == e.mediaStandalone

isStandaloneEnv(e) == e.mediaStandalone \/ e.navStandalone

isIOS(e) ==
    \/ e.ua \cap IOSTokens # {}
    \/ (e.platform = "MacIntel" /\ e.maxTouchPoints > 1)

isInApp(e) == \E tok \in e.ua : Fold(tok) \in InAppTokens

isSafari(e) == "Safari" \in e.ua /\ e.ua \cap OtherBrowserTokens = {}

\* variant: the fallback timer on every platform
isAndroidAlways(e) == TRUE

isAndroid(e) == \E tok \in e.ua : Fold(tok) = "android"

\* variant: the OS test ahead of the in-app-browser test
detectPlatformOSFirst(e) ==
    IF isStandaloneEnv(e) THEN [promptType |-> "none", isStandalone |-> TRUE]
    ELSE IF isIOS(e) THEN
        IF isSafari(e) THEN [promptType |-> "ios-safari", isStandalone |-> FALSE]
        ELSE [promptType |-> "ios-other", isStandalone |-> FALSE]
    ELSE IF isInApp(e) THEN [promptType |-> "wechat", isStandalone |-> FALSE]
    ELSE [promptType |-> "native", isStandalone |-> FALSE]

detectPlatform(e) ==
    IF isStandaloneEnv(e) THEN [promptType |-> "none", isStandalone |-> TRUE]
    ELSE IF isInApp(e) THEN [promptType |-> "wechat", isStandalone |-> FALSE]
    ELSE IF isIOS(e) THEN
        IF isSafari(e) THEN [promptType |-> "ios-safari", isStandalone |-> FALSE]
        ELSE [promptType |-> "ios-other", isStandalone |-> FALSE]
    ELSE [promptType |-> "native", isStandalone |-> FALSE]

----------------------------------------------------------------------------
(* The dismissal record: a string of characters; the digits are 0..9. *)

NaN == 0 - 1
NoRecord == [present |-> FALSE, value |-> <<>>]
Record(s) == [present |-> TRUE, value |-> s]

RECURSIVE toString(_)
toString(n) == IF n < 10 THEN <<n>> ELSE toString(n \div 10) \o <<n % 10>>

RECURSIVE ParseDigits(_, _)
ParseDigits(s, acc) ==
    IF s = <<>> \/ Head(s) \notin 0..9 THEN acc
    ELSE ParseDigits(Tail(s), acc * 10 + Head(s))

parseInt(s) == IF s = <<>> \/ Head(s) \notin 0..9 THEN NaN ELSE ParseDigits(s, 0)

\* variant: a record exactly 24 hours old still suppresses
CooldownActiveInclusive(rec, t) ==
    /\ rec.present
    /\ rec.value # <<>>
    /\ parseInt(rec.value) # NaN
    /\ t - parseInt(rec.value) <= CooldownMs

\* variant: a window of one hour
CooldownActiveOneHour(rec, t) ==
    /\ rec.present
    /\ rec.value # <<>>
    /\ parseInt(rec.value) # NaN
    /\ t - parseInt(rec.value) < 60 * 60 * 1000

\* line 174: dismissedAt && Date.now() - parseInt(dismissedAt) < 24h
CooldownActive(rec, t) ==
    /\ rec.present
    /\ rec.value # <<>>
    /\ parseInt(rec.value) # NaN
    /\ t - parseInt(rec.value) < CooldownMs

----------------------------------------------------------------------------
(* Timers *)

Timer(kind, due, owner, id) == [kind |-> kind, due |-> due, owner |-> owner, id |-> id]

\* variant: a cleanup that clears no timer
CleanupNothing(ts, owner) == ts

\* what the effect's cleanup function leaves of the pending timers
Cleanup(ts, owner) == {tm \in ts : ~(tm.kind = "fallback" /\ tm.owner = owner)}

\* the listeners the cleanup function leaves on window
CleanupInstalledListeners(ls, owner) == ls

SetMin(S) == CHOOSE x \in S : \A y \in S : x <= y

StaticTypes == {"wechat", "ios-safari", "ios-other"}

\* the render guard of line 235
guidanceShown == mounted /\ visible /\ promptType # "none"

live(tm) == mounted /\ tm.owner = session

----------------------------------------------------------------------------
(* The localization store (useI18n).  The zh texts are not ASCII; each stands
   here as "zh:" followed by its key. *)

Languages == {"en", "zh"}

translationsEn ==
    [ initializeRun |-> "INITIALIZE RUN",
      controlHint |-> "[ ARROWS / BUTTONS TO MOVE ]",
      cyberShop |-> "CYBER SHOP",
      availableCredits |-> "AVAILABLE CREDITS:",
      resumeMission |-> "RESUME MISSION",
      gems |-> "GEMS",
      doubleJump |-> "DOUBLE JUMP",
      doubleJumpDesc |-> "Jump again in mid-air. Essential for high obstacles.",
      maxLifeUp |-> "MAX LIFE UP",
      maxLifeUpDesc |-> "Permanently adds a heart slot and heals you.",
      repairKit |-> "REPAIR KIT",
      repairKitDesc |-> "Restores 1 Life point instantly.",
      immortality |-> "IMMORTALITY",
      immortalityDesc |-> "Unlock Ability: Press Space/Tap to be invincible for 5s.",
      gameOver |-> "GAME OVER",
      level |-> "LEVEL",
      gemsCollected |-> "GEMS COLLECTED",
      distance |-> "DISTANCE",
      totalScore |-> "TOTAL SCORE",
      runAgain |-> "RUN AGAIN",
      missionComplete |-> "MISSION COMPLETE",
      victoryMessage |-> "THE ANSWER TO THE UNIVERSE HAS BEEN FOUND",
      finalScore |-> "FINAL SCORE",
      restartMission |-> "RESTART MISSION",
      speed |-> "SPEED",
      immortal |-> "IMMORTAL" ]

\* variant: the zh dictionary without the last HUD entry
translationsZhIncomplete == [k \in (DOMAIN translationsEn) \ {"immortal"} |-> "zh"]

translationsZh ==
    [ initializeRun |-> "zh:initializeRun",
      controlHint |-> "zh:controlHint",
      cyberShop |-> "zh:cyberShop",
      availableCredits |-> "zh:availableCredits",
      resumeMission |-> "zh:resumeMission",
      gems |-> "zh:gems",
      doubleJump |-> "zh:doubleJump",
      doubleJumpDesc |-> "zh:doubleJumpDesc",
      maxLifeUp |-> "zh:maxLifeUp",
      maxLifeUpDesc |-> "zh:maxLifeUpDesc",
      repairKit |-> "zh:repairKit",
      repairKitDesc |-> "zh:repairKitDesc",
      immortality |-> "zh:immortality",
      immortalityDesc |-> "zh:immortalityDesc",
      gameOver |-> "zh:gameOver",
      level |-> "zh:level",
      gemsCollected |-> "zh:gemsCollected",
      distance |-> "zh:distance",
      totalScore |-> "zh:totalScore",
      runAgain |-> "zh:runAgain",
      missionComplete |-> "zh:missionComplete",
      victoryMessage |-> "zh:victoryMessage",
      finalScore |-> "zh:finalScore",
      restartMission |-> "zh:restartMission",
      speed |-> "zh:speed",
      immortal |-> "zh:immortal" ]

translations == [en |-> translationsEn, zh |-> translationsZh]

\* The dictionary under test: the source dictionary with, for the keys of
\* TestKeys, each entry as in the source, emptied or removed.
TestKeys == {"speed", "gems"}

SourceShape == [l \in Languages |-> [k \in TestKeys |-> "source"]]

DictOf(shape) ==
    [l \in Languages |->
        [k \in {x \in DOMAIN translations[l] : x \in TestKeys => shape[l][x] # "missing"} |->
            IF k \in TestKeys /\ shape[l][k] = "empty" THEN "" ELSE translations[l][k]]]

dict == DictOf(dictShape)

Undefined == "<undefined>"      \* the value of a property that is missing
NoKey == "<none>"               \* nothing looked up
NoLanguage == "<unset>"         \* setLanguage never called

Entry(d, lang, key) == IF key \in DOMAIN d[lang] THEN d[lang][key] ELSE Undefined

Falsy(v) == v = Undefined \/ v = ""

\* variant: a ?? b ?? key, which takes an empty string for a text
tNullish(d, lang, key) ==
    IF Entry(d, lang, key) # Undefined THEN Entry(d, lang, key)
    ELSE IF Entry(d, "en", key) # Undefined THEN Entry(d, "en", key)
    ELSE key

\* translations[lang][key] || translations['en'][key] || key
t(d, lang, key) ==
    IF ~Falsy(Entry(d, lang, key)) THEN Entry(d, lang, key)
    ELSE IF ~Falsy(Entry(d, "en", key)) THEN Entry(d, "en", key)
    ELSE key

\* what the persist middleware keeps under 'runner-game-language'
NotPersisted == [present |-> FALSE, state |-> [language |-> "en"]]
Persisted(lang) == [present |-> TRUE, state |-> [language |-> lang]]

\* the store as created: the initial state merged with the persisted one
Hydrate(st) == IF st.present THEN st.state.language ELSE "en"

AllKeys(d) == DOMAIN d["en"] \cup DOMAIN d["zh"]

----------------------------------------------------------------------------
(* Initial states *)

UserAgents ==
    { {"Chrome", "Safari"},                                \* desktop Chrome
      {"Android", "Chrome", "Safari"},                     \* Android Chrome
      {"Android", "MicroMessenger", "Chrome", "Safari"},   \* WeChat on Android
      {"iPhone", "Safari"},                                \* iOS Safari
      {"iPhone", "CriOS", "Safari"},                       \* iOS Chrome
      {"iPhone", "MicroMessenger"} }                       \* WeChat on iOS

Envs ==
    { [ua |-> u, platform |-> "other", maxTouchPoints |-> 0,
       mediaStandalone |-> m, navStandalone |-> FALSE] :
         u \in UserAgents, m \in BOOLEAN }
    \cup
    { [ua |-> {"iPhone", "Safari"}, platform |-> "other", maxTouchPoints |-> 5,
       mediaStandalone |-> FALSE, navStandalone |-> TRUE],
      [ua |-> {"Safari"}, platform |-> "MacIntel", maxTouchPoints |-> 5,
       mediaStandalone |-> FALSE, navStandalone |-> FALSE] }

\* when the guidance was last dismissed before the page was loaded (NaN: never)
InitialDismissals ==
    { NaN,
      Epoch - CooldownMs,
      Epoch - 60 * 60 * 1000 }

InitComponent ==
    /\ now = Epoch
    /\ session = 0
    /\ mounted = FALSE
    /\ detected = "unset"
    /\ deferredPrompt = 0
    /\ visible = FALSE
    /\ promptType = "none"
    /\ nativeFired = FALSE
    /\ bipListener = FALSE
    /\ installedListeners = {}
    /\ timers = {}
    /\ awaiting = {}
    /\ signals = 0
    /\ appInstalled = FALSE
    /\ mountTime = Epoch
    /\ unmountedEarly = FALSE
    /\ installedSeen = FALSE
    /\ dismissedSeen = FALSE
    /\ lastOutcome = "none"
    /\ lastSignalAt = NaN
    /\ lastDismissSession = 0

\* the store before any call, nothing persisted
InitStoreIdle ==
    /\ language = "en"
    /\ langStorage = NotPersisted
    /\ dictShape = SourceShape
    /\ lastKey = NoKey
    /\ lastResult = NoKey
    /\ lastSet = NoLanguage
    /\ prevSet = NoLanguage
    /\ restarted = FALSE

Init ==
    /\ InitStoreIdle
    /\ env \in Envs
    /\ lastDismissAt \in InitialDismissals
    /\ storage = IF lastDismissAt = NaN THEN NoRecord ELSE Record(toString(lastDismissAt))
    /\ InitComponent

----------------------------------------------------------------------------
(* Actions *)

\* useState initial values and the useEffect body, lines 161-217
Mount ==
    /\ ~mounted
    /\ session < MaxSessions
    /\ session' = session + 1
    /\ mounted' = TRUE
    /\ lastOutcome' = "none"
    /\ mountTime' = now
    /\ unmountedEarly' = FALSE
    /\ deferredPrompt' = 0
    /\ visible' = FALSE
    /\ nativeFired' = FALSE
    /\ installedSeen' = FALSE
    /\ dismissedSeen' = FALSE
    /\ lastSignalAt' = NaN
    /\ LET d == detectPlatform(env) IN
        /\ detected' = d.promptType
        /\ IF d.isStandalone \/ CooldownActive(storage, now) THEN
              /\ promptType' = "none"
              /\ UNCHANGED <<bipListener, installedListeners, timers>>
           ELSE IF d.promptType \in StaticTypes THEN
              /\ promptType' = d.promptType
              /\ timers' = timers \cup {Timer("static", now + StaticDelayMs, session', 0)}
              /\ UNCHANGED <<bipListener, installedListeners>>
           ELSE
              /\ promptType' = "none"
              /\ bipListener' = TRUE
              /\ installedListeners' = installedListeners \cup {session'}
              /\ timers' = IF isAndroid(env)
                           THEN timers \cup {Timer("fallback", now + FallbackDelayMs, session', 0)}
                           ELSE timers
    /\ UNCHANGED <<i18nVars, appInstalled, env, storage, now, awaiting, signals, lastDismissAt, lastDismissSession>>

\* the cleanup function returned by the effect, lines 213-216; only the
\* native path returns one.  The state of the instance goes with it.
Unmount ==
    /\ mounted
    /\ mounted' = FALSE
    /\ lastOutcome' = "none"
    /\ unmountedEarly' = (now < mountTime + FallbackDelayMs)
    /\ installedSeen' = FALSE
    /\ dismissedSeen' = FALSE
    /\ lastSignalAt' = NaN
    /\ deferredPrompt' = 0
    /\ visible' = FALSE
    /\ promptType' = "none"
    /\ IF bipListener
       THEN /\ bipListener' = FALSE
            /\ timers' = Cleanup(timers, session)
            /\ installedListeners' = CleanupInstalledListeners(installedListeners, session)
       ELSE UNCHANGED <<bipListener, timers, installedListeners>>
    /\ UNCHANGED <<i18nVars, appInstalled, env, storage, now, session, detected, nativeFired, awaiting,
                   signals, mountTime, lastDismissAt, lastDismissSession>>

\* the 'beforeinstallprompt' handler, lines 185-191; the browser sends the
\* event while the app is installable, not once it is installed
BeforeInstallPrompt ==
    /\ bipListener
    /\ ~appInstalled
    /\ signals < MaxSignals
    /\ signals' = signals + 1
    /\ nativeFired' = TRUE
    /\ deferredPrompt' = signals'
    /\ promptType' = "native"
    /\ timers' = timers \cup {Timer("native", now + NativeDelayMs, session, signals')}
    /\ lastSignalAt' = now
    /\ UNCHANGED <<i18nVars, lastOutcome, appInstalled, unmountedEarly, env, storage, now, session, mounted, detected, visible, bipListener,
                   installedListeners, awaiting, mountTime, installedSeen,
                   dismissedSeen, lastDismissAt, lastDismissSession>>

\* the browser installs the app (from the prompt or from its own menu) and
\* the 'appinstalled' listeners run, lines 195-199; a listener of an unmounted
\* instance still runs, its state updates are dropped
AppInstalled ==
    /\ ~appInstalled
    /\ appInstalled' = TRUE
    /\ IF mounted /\ session \in installedListeners
       THEN /\ visible' = FALSE
            /\ deferredPrompt' = 0
            /\ promptType' = "none"
            /\ installedSeen' = TRUE
       ELSE UNCHANGED <<visible, deferredPrompt, promptType, installedSeen>>
    /\ UNCHANGED <<i18nVars, lastOutcome, unmountedEarly, env, storage, now, session, mounted, detected, nativeFired,
                   bipListener, installedListeners, timers, awaiting, signals,
                   mountTime, dismissedSeen, lastSignalAt, lastDismissAt,
                   lastDismissSession>>

\* () => setVisible(true), lines 178 and 190
DisplayTimerFires ==
    \E tm \in timers :
        /\ tm.kind \in {"static", "native"}
        /\ tm.due <= now
        /\ timers' = timers \ {tm}
        /\ visible' = IF live(tm) THEN TRUE ELSE visible
        /\ UNCHANGED <<i18nVars, lastOutcome, appInstalled, unmountedEarly, env, storage, now, session, mounted, detected, deferredPrompt,
                       promptType, nativeFired, bipListener, installedListeners,
                       awaiting, signals, mountTime, installedSeen, dismissedSeen,
                       lastSignalAt, lastDismissAt, lastDismissSession>>

\* variant: the callback without the nativeFired test
FallbackCallbackUnguarded(fired) ==
    promptType' = "android-fallback" /\ visible' = TRUE

\* the callback of fallbackTimer, lines 205-210
FallbackCallback(fired) ==
    IF ~fired
    THEN promptType' = "android-fallback" /\ visible' = TRUE
    ELSE UNCHANGED <<promptType, visible>>

FallbackTimerFires ==
    \E tm \in timers :
        /\ tm.kind = "fallback"
        /\ tm.due <= now
        /\ timers' = timers \ {tm}
        /\ IF live(tm) THEN FallbackCallback(nativeFired)
                       ELSE UNCHANGED <<promptType, visible>>
        /\ UNCHANGED <<i18nVars, lastOutcome, appInstalled, unmountedEarly, env, storage, now, session, mounted, detected, deferredPrompt,
                       nativeFired, bipListener, installedListeners, awaiting,
                       signals, mountTime, installedSeen, dismissedSeen,
                       lastSignalAt, lastDismissAt, lastDismissSession>>

\* handleInstall up to its suspension, lines 219-222; the Install button is
\* rendered by the native variant only.  prompt() of an event whose prompt is
\* already open rejects and the call ends without a state update.
InstallClick ==
    /\ guidanceShown
    /\ promptType \notin StaticTypes \cup {"android-fallback"}
    /\ awaiting' = IF deferredPrompt # 0
                   THEN awaiting \cup {[h |-> deferredPrompt, owner |-> session]}
                   ELSE awaiting
    /\ UNCHANGED <<i18nVars, lastOutcome, appInstalled, unmountedEarly, env, storage, now, session, mounted, detected, deferredPrompt,
                   visible, promptType, nativeFired, bipListener, installedListeners,
                   timers, signals, mountTime, installedSeen, dismissedSeen,
                   lastSignalAt, lastDismissAt, lastDismissSession>>

\* variant: the prompt type kept on acceptance
InstallResolveKeepsType ==
    \E a \in awaiting, outcome \in {"accepted", "dismissed"} :
        /\ awaiting' = awaiting \ {a}
        /\ IF mounted /\ a.owner = session
           THEN /\ promptType' = promptType
                /\ visible' = FALSE
                /\ deferredPrompt' = 0
                /\ lastOutcome' = outcome
           ELSE UNCHANGED <<promptType, visible, deferredPrompt, lastOutcome>>
        /\ UNCHANGED <<i18nVars, appInstalled, unmountedEarly, env, storage, now, session, mounted,
                       detected, nativeFired, bipListener, installedListeners, timers,
                       signals, mountTime, installedSeen, dismissedSeen, lastSignalAt,
                       lastDismissAt, lastDismissSession>>

\* variant: a rejected native prompt recorded as a dismissal
InstallResolveRecordsDismissal ==
    \E a \in awaiting, outcome \in {"accepted", "dismissed"} :
        /\ awaiting' = awaiting \ {a}
        /\ IF mounted /\ a.owner = session
           THEN /\ promptType' = IF outcome = "accepted" THEN "none" ELSE promptType
                /\ visible' = FALSE
                /\ deferredPrompt' = 0
                /\ lastOutcome' = outcome
           ELSE UNCHANGED <<promptType, visible, deferredPrompt, lastOutcome>>
        /\ storage' = IF outcome = "dismissed" /\ mounted /\ a.owner = session
                      THEN Record(toString(now)) ELSE storage
        /\ UNCHANGED <<i18nVars, appInstalled, unmountedEarly, env, now, session, mounted,
                       detected, nativeFired, bipListener, installedListeners, timers,
                       signals, mountTime, installedSeen, dismissedSeen, lastSignalAt,
                       lastDismissAt, lastDismissSession>>

\* handleInstall after userChoice resolves, lines 222-227
InstallResolve ==
    \E a \in awaiting, outcome \in {"accepted", "dismissed"} :
        /\ awaiting' = awaiting \ {a}
        /\ IF mounted /\ a.owner = session
           THEN /\ promptType' = IF outcome = "accepted" THEN "none" ELSE promptType
                /\ visible' = FALSE
                /\ deferredPrompt' = 0
                /\ lastOutcome' = outcome
           ELSE UNCHANGED <<promptType, visible, deferredPrompt, lastOutcome>>
        /\ UNCHANGED <<i18nVars, appInstalled, unmountedEarly, env, storage, now, session, mounted,
                       detected, nativeFired, bipListener, installedListeners, timers,
                       signals, mountTime, installedSeen, dismissedSeen, lastSignalAt,
                       lastDismissAt, lastDismissSession>>

\* variant: a dismiss that hides the guidance and persists nothing
DismissNotPersisted ==
    /\ guidanceShown
    /\ visible' = FALSE
    /\ storage' = storage
    /\ dismissedSeen' = TRUE
    /\ lastDismissAt' = now
    /\ lastDismissSession' = session
    /\ UNCHANGED <<i18nVars, lastOutcome, appInstalled, unmountedEarly, env, now, session, mounted, detected, deferredPrompt, promptType,
                   nativeFired, bipListener, installedListeners, timers, awaiting,
                   signals, mountTime, installedSeen, lastSignalAt>>

\* handleDismiss, lines 230-233; the dismiss control exists while guidance is rendered
Dismiss ==
    /\ guidanceShown
    /\ visible' = FALSE
    /\ storage' = Record(toString(now))
    /\ dismissedSeen' = TRUE
    /\ lastDismissAt' = now
    /\ lastDismissSession' = session
    /\ UNCHANGED <<i18nVars, lastOutcome, appInstalled, unmountedEarly, env, now, session, mounted, detected, deferredPrompt, promptType,
                   nativeFired, bipListener, installedListeners, timers, awaiting,
                   signals, mountTime, installedSeen, lastSignalAt>>

\* Time passes; a timer that is due runs before the clock moves on.
Elapsed == (now - Epoch) % JumpMs
JumpsDone == (now - Epoch) \div JumpMs

Tick ==
    /\ \A tm \in timers : tm.due > now
    /\ LET target == SetMin({now + StepMs} \cup {tm.due : tm \in timers}) IN
        /\ Elapsed + (target - now) <= MaxElapsed
        /\ now' = target
    /\ UNCHANGED <<i18nVars, lastOutcome, appInstalled, unmountedEarly, env, storage, session, mounted, detected, deferredPrompt, visible,
                   promptType, nativeFired, bipListener, installedListeners, timers,
                   awaiting, signals, mountTime, installedSeen, dismissedSeen,
                   lastSignalAt, lastDismissAt, lastDismissSession>>

\* A long wait with no timer pending.
LongWait ==
    /\ timers = {}
    /\ JumpsDone < MaxJumps
    /\ now' = Epoch + (JumpsDone + 1) * JumpMs + Elapsed
    /\ UNCHANGED <<i18nVars, lastOutcome, appInstalled, unmountedEarly, env, storage, session, mounted, detected, deferredPrompt, visible,
                   promptType, nativeFired, bipListener, installedListeners, timers,
                   awaiting, signals, mountTime, installedSeen, dismissedSeen,
                   lastSignalAt, lastDismissAt, lastDismissSession>>

Next ==
    \/ Mount
    \/ Unmount
    \/ BeforeInstallPrompt
    \/ AppInstalled
    \/ DisplayTimerFires
    \/ FallbackTimerFires
    \/ InstallClick
    \/ InstallResolve
    \/ Dismiss
    \/ Tick
    \/ LongWait

Spec == Init /\ [][Next]_vars

TypeOK ==
    /\ now >= Epoch
    /\ session \in 0..MaxSessions
    /\ promptType \in {"none", "native", "android-fallback"} \cup StaticTypes
    /\ deferredPrompt \in 0..MaxSignals

----------------------------------------------------------------------------
(* Properties *)

\* C1: once the appinstalled signal has been handled in a session, the
\* guidance is never visible later in that session (a display-delay timer or
\* the Android fallback timeout that was pending must not make it appear),
\* and the captured handle is null from the signal on.
C1_NoGuidanceAfterInstalled ==
    installedSeen => (~guidanceShown /\ deferredPrompt = 0)

C1_HandleNullAfterInstalled == installedSeen => deferredPrompt = 0

\* C2: after unmount neither platform listener of the instance is registered
\* and none of its timers is pending, so no callback of it can run.
C2_UnmountReleasesEverything ==
    /\ bipListener => mounted
    /\ \A s \in installedListeners : mounted /\ s = session
    /\ \A tm \in timers : live(tm)

\* C3: after the dismiss action guidance is never visible again in that session.
C3_DismissedIsTerminal == dismissedSeen => ~guidanceShown

\* C4: if at mount a dismissal record exists and is less than 24 hours old,
\* then on every platform no guidance is visible in that session and the
\* session registers no listener and starts no timer.
CooldownAtMount ==
    /\ lastDismissAt # NaN
    /\ lastDismissSession < session
    /\ mountTime - lastDismissAt < CooldownMs

C4_CooldownSuppresses ==
    (session >= 1 /\ CooldownAtMount) =>
        /\ ~guidanceShown
        /\ ~bipListener
        /\ session \notin installedListeners
        /\ \A tm \in timers : tm.owner # session

C4_Witness ==
    /\ mounted
    /\ CooldownAtMount
    /\ ~env.mediaStandalone /\ ~env.navStandalone
    /\ now >= mountTime + FallbackDelayMs

\* C5: every dismiss action writes the time of the dismissal to the record,
\* and a session mounted less than 24 hours after it shows no guidance.
DecimalValue(s) ==
    LET v[i \in 0..Len(s)] == IF i = 0 THEN 0 ELSE v[i - 1] * 10 + s[i]
    IN v[Len(s)]

C5_DismissPersists ==
    lastDismissSession >= 1 =>
        /\ storage.present
        /\ \A i \in 1..Len(storage.value) : storage.value[i] \in 0..9
        /\ DecimalValue(storage.value) = lastDismissAt
        /\ (session > lastDismissSession /\ mountTime - lastDismissAt < CooldownMs)
              => ~guidanceShown

C5_Witness ==
    /\ mounted
    /\ lastDismissSession >= 1
    /\ session > lastDismissSession
    /\ mountTime - lastDismissAt < CooldownMs
    /\ now >= mountTime + NativeDelayMs

\* C6: in standalone display mode (the media query matches or the iOS
\* navigator.standalone flag is set) the classification is 'none', no listener
\* is registered, no timer is started and guidance is never visible.
C6_StandaloneSuppressed ==
    (env.mediaStandalone \/ env.navStandalone) =>
        /\ detected \in {"unset", "none"}
        /\ ~bipListener
        /\ installedListeners = {}
        /\ timers = {}
        /\ ~guidanceShown

C6_Witness ==
    /\ mounted
    /\ env.navStandalone
    /\ lastDismissAt = NaN
    /\ now >= mountTime + StaticDelayMs

\* C7: detectPlatform returns 'none' if standalone; else 'wechat' if the
\* in-app signature matches, also on iOS; else 'ios-safari' if iOS with the
\* Safari token and no other-browser token; else 'ios-other' if iOS; else
\* 'native'.
SigStandalone == env.mediaStandalone \/ env.navStandalone
SigInApp ==
    env.ua \cap {"MicroMessenger", "micromessenger", "QQ/", "wxwork", "DingTalk",
                 "Weibo"} # {}
SigIOS ==
    \/ "iPad" \in env.ua \/ "iPhone" \in env.ua \/ "iPod" \in env.ua
    \/ (env.platform = "MacIntel" /\ env.maxTouchPoints >= 2)
SigSafariToken == "Safari" \in env.ua
SigOtherBrowserToken ==
    env.ua \cap {"Chrome", "CriOS", "FxiOS", "EdgiOS", "OPiOS"} # {}

C7_FirstMatchWins ==
    detected # "unset" =>
        detected = CASE SigStandalone -> "none"
                     [] ~SigStandalone /\ SigInApp -> "wechat"
                     [] ~SigStandalone /\ ~SigInApp /\ SigIOS
                          /\ SigSafariToken /\ ~SigOtherBrowserToken -> "ios-safari"
                     [] ~SigStandalone /\ ~SigInApp /\ SigIOS
                          /\ ~(SigSafariToken /\ ~SigOtherBrowserToken) -> "ios-other"
                     [] OTHER -> "native"

C7_Witness == detected = "wechat" /\ SigIOS /\ SigSafariToken

\* C8: on the native path, when the instance was unmounted before any
\* readiness signal, no readiness handler is left to receive a later signal,
\* no guidance is shown and no timer of the instance is left to fire.
C8_EarlyUnmount ==
    (session >= 1 /\ ~mounted /\ detected = "native" /\ ~nativeFired) =>
        /\ ~bipListener
        /\ ~guidanceShown
        /\ \A tm \in timers : tm.owner # session

C8_Witness ==
    /\ ~mounted
    /\ detected = "native"
    /\ ~nativeFired
    /\ isAndroid(env)
    /\ lastDismissAt = NaN
    /\ unmountedEarly
    /\ now >= mountTime + FallbackDelayMs

\* C9: the native variant is not visible before 1.5 s have elapsed since the
\* readiness signal, in every state in which the signal can arrive.
C9_NativeDelayed ==
    (guidanceShown /\ promptType = "native") => now >= lastSignalAt + NativeDelayMs

\* C10: the android-fallback variant becomes visible exactly when the 3.5 s
\* timeout fires with no readiness signal received since mount; after a
\* readiness signal the fallback variant is not what the session shows.
FallbackShown == guidanceShown /\ promptType = "android-fallback"

FallbackTimeout ==
    /\ mounted /\ mounted'
    /\ \E tm \in timers : tm.kind = "fallback" /\ tm.owner = session /\ tm \notin timers'

SigAndroid == env.ua \cap {"Android", "android", "ANDROID"} # {}

C11_NoSignalNoGuidance ==
    (mounted /\ detected = "native" /\ ~SigAndroid /\ ~nativeFired) =>
        /\ ~guidanceShown
        /\ \A tm \in timers : ~(tm.kind = "fallback" /\ tm.owner = session)

C11_Witness ==
    /\ mounted
    /\ detected = "native"
    /\ ~SigAndroid
    /\ ~nativeFired
    /\ bipListener
    /\ now >= mountTime + FallbackDelayMs

\* C12: with classification wechat, ios-safari or ios-other, not standalone
\* and no active cooldown, guidance is not visible before 2.5 s after mount,
\* is visible once that delay has expired (until it is dismissed), the variant
\* always equals the classification computed at mount, and the session
\* registers no platform listener.
NotSuppressedAtMount ==
    \/ lastDismissAt = NaN
    \/ lastDismissSession = session
    \/ mountTime - lastDismissAt >= 86400000

C12_StaticGuidance ==
    (mounted /\ detected \in {"wechat", "ios-safari", "ios-other"} /\ NotSuppressedAtMount) =>
        /\ promptType = detected
        /\ ~bipListener
        /\ session \notin installedListeners
        /\ guidanceShown => now >= mountTime + 2500
        /\ (~dismissedSeen /\ \A tm \in timers : tm.owner # session) => guidanceShown
        /\ (now < mountTime + 2500) => \E tm \in timers : tm.owner = session

C12_Witness ==
    /\ guidanceShown
    /\ promptType = "ios-other"
    /\ now = mountTime + 2500

\* C13: the install action with a captured handle invokes the handle's prompt
\* and waits for the user choice; when the choice resolves, guidance is hidden
\* and the handle is null for both outcomes, the prompt type becomes 'none' on
\* 'accepted' and is left as it is ('native') on 'dismissed'.  Without a
\* captured handle the install action invokes nothing.
ResolveStep == mounted /\ \E a \in awaiting : a \notin awaiting' /\ a.owner = session

C13_InstallOutcome ==
    /\ [][ResolveStep =>
            /\ visible' = FALSE
            /\ deferredPrompt' = 0
            /\ lastOutcome' \in {"accepted", "dismissed"}
            /\ (lastOutcome' = "accepted" => promptType' = "none")
            /\ (lastOutcome' = "dismissed" => promptType' = promptType)]_vars
    /\ [][\A a \in awaiting' \ awaiting :
            /\ deferredPrompt # 0
            /\ a.h = deferredPrompt
            /\ guidanceShown /\ promptType = "native"
            /\ UNCHANGED <<visible, promptType, deferredPrompt, storage>>]_vars

C13_Witness ==
    /\ mounted
    /\ lastOutcome = "dismissed"
    /\ promptType = "native"
    /\ ~visible
    /\ deferredPrompt = 0
    /\ awaiting = {}

\* C18: whenever the native variant is visible (the Install button is
\* rendered) a deferred install handle is held.
C18_NativeVisibleHasHandle ==
    (guidanceShown /\ promptType = "native") => deferredPrompt # 0

\* C19: the dismissal record is written by the dismiss action only, and the
\* dismiss action changes nothing but the visibility and the record.
C19_RecordFrame ==
    [][(storage' # storage \/ (dismissedSeen' /\ ~dismissedSeen)) =>
          /\ guidanceShown
          /\ visible' = FALSE
          /\ storage'.present
          /\ DecimalValue(storage'.value) = now
          /\ UNCHANGED <<deferredPrompt, promptType, mounted, session, nativeFired,
                         bipListener, installedListeners, timers, awaiting, now>>]_vars

C19_Witness ==
    /\ dismissedSeen
    /\ lastOutcome = "dismissed"
    /\ lastDismissAt = now
    /\ promptType = "native"
    /\ deferredPrompt # 0

\* C20: the dismissal record suppresses the session if and only if a record
\* exists and now minus its timestamp is strictly less than 86,400,000 ms; a
\* record exactly 24 hours old or older, or no record, leaves the session to
\* proceed as its classification prescribes.
SuppressingRecordAtMount ==
    /\ lastDismissAt # NaN
    /\ lastDismissSession < session
    /\ mountTime - lastDismissAt < 86400000

Engaged ==
    \/ /\ detected \in {"wechat", "ios-safari", "ios-other"}
       /\ promptType = detected
       /\ (now < mountTime + 2500 => \E tm \in timers : tm.owner = session /\ tm.kind = "static")
    \/ /\ detected = "native"
       /\ bipListener
       /\ session \in installedListeners
       /\ (SigAndroid /\ now < mountTime + 3500)
            => \E tm \in timers : tm.owner = session /\ tm.kind = "fallback"

Idle ==
    /\ promptType = "none"
    /\ ~visible
    /\ ~bipListener
    /\ session \notin installedListeners
    /\ \A tm \in timers : tm.owner # session

C20_CooldownBoundary ==
    (mounted /\ ~SigStandalone) =>
        /\ SuppressingRecordAtMount => Idle
        /\ ~SuppressingRecordAtMount => Engaged

C20_Witness ==
    /\ mounted
    /\ ~SigStandalone
    /\ lastDismissAt # NaN
    /\ mountTime - lastDismissAt = 86400000
    /\ Engaged

----------------------------------------------------------------------------
(* The classifier on its own, over every combination of environment signals *)

UATokenChoices ==
    { ios \cup app \cup saf \cup oth \cup andr :
        ios \in {{}, {"iPhone"}, {"iPad"}, {"iPod"}, {"iphone"}},
        app \in {{}, {"MicroMessenger"}, {"QQ/"}, {"wxwork"}, {"DingTalk"}, {"Weibo"},
                 {"micromessenger"}},
        saf \in {{}, {"Safari"}},
        oth \in {{}, {"Chrome"}, {"CriOS"}, {"FxiOS"}, {"EdgiOS"}, {"OPiOS"}},
        andr \in {{}, {"Android"}} }

DetectEnvs ==
    [ ua : UATokenChoices,
      platform : {"MacIntel", "other"},
      maxTouchPoints : 0..2,
      mediaStandalone : BOOLEAN,
      navStandalone : BOOLEAN ]

InitDetect ==
    /\ InitStoreIdle
    /\ env \in DetectEnvs
    /\ lastDismissAt = NaN
    /\ storage = NoRecord
    /\ InitComponent

\* line 168: const { promptType: detected, isStandalone } = detectPlatform()
Classify ==
    /\ detected = "unset"
    /\ detected' = detectPlatform(env).promptType
    /\ UNCHANGED <<i18nVars, lastOutcome, appInstalled, unmountedEarly, env, storage, now, session, mounted, deferredPrompt, visible,
                   promptType, nativeFired, bipListener, installedListeners, timers,
                   awaiting, signals, mountTime, installedSeen, dismissedSeen,
                   lastSignalAt, lastDismissAt, lastDismissSession>>

NextDetect == Classify

DetectSpec == InitDetect /\ [][NextDetect]_vars

----------------------------------------------------------------------------
(* The localization store on its own *)

\* the advisor is not mounted while the store is exercised
InitAdvisorIdle ==
    /\ env = [ua |-> {"Chrome", "Safari"}, platform |-> "other", maxTouchPoints |-> 0,
              mediaStandalone |-> FALSE, navStandalone |-> FALSE]
    /\ lastDismissAt = NaN
    /\ storage = NoRecord
    /\ InitComponent

InitI18n ==
    /\ InitAdvisorIdle
    /\ dictShape = SourceShape
    /\ langStorage \in {NotPersisted} \cup {Persisted(l) : l \in Languages}
    /\ language = Hydrate(langStorage)
    /\ lastSet = IF langStorage.present THEN langStorage.state.language ELSE NoLanguage
    /\ prevSet = NoLanguage
    /\ restarted = FALSE
    /\ lastKey = NoKey
    /\ lastResult = NoKey

\* variant: a toggle that ignores its argument
setLanguageToggle(lang) ==
    /\ language' = IF language = "en" THEN "zh" ELSE "en"
    /\ langStorage' = Persisted(language')
    /\ lastSet' = lang
    /\ prevSet' = lastSet
    /\ restarted' = FALSE
    /\ lastKey' = NoKey
    /\ lastResult' = NoKey
    /\ UNCHANGED <<advisorVars, dictShape>>

\* variant: the store without the persist middleware
setLanguageNotPersisted(lang) ==
    /\ language' = lang
    /\ langStorage' = langStorage
    /\ lastSet' = lang
    /\ prevSet' = lastSet
    /\ restarted' = FALSE
    /\ lastKey' = NoKey
    /\ lastResult' = NoKey
    /\ UNCHANGED <<advisorVars, dictShape>>

\* setLanguage: set({ language: lang }), written through by persist; the
\* texts on display are rendered again
setLanguage(lang) ==
    /\ language' = lang
    /\ langStorage' = Persisted(lang)
    /\ lastSet' = lang
    /\ prevSet' = lastSet
    /\ restarted' = FALSE
    /\ lastKey' = NoKey
    /\ lastResult' = NoKey
    /\ UNCHANGED <<advisorVars, dictShape>>

SetLanguage == \E lang \in Languages : setLanguage(lang)

\* t(key) as a component displays it
Lookup ==
    \E key \in AllKeys(translations) :
        /\ lastKey' = key
        /\ lastResult' = t(dict, language, key)
        /\ UNCHANGED <<advisorVars, language, langStorage, dictShape, lastSet, prevSet,
                       restarted>>

\* the page is loaded again: create() with the persisted state merged in
Restart ==
    /\ language' = Hydrate(langStorage)
    /\ restarted' = TRUE
    /\ lastKey' = NoKey
    /\ lastResult' = NoKey
    /\ UNCHANGED <<advisorVars, langStorage, dictShape, lastSet, prevSet>>

NextI18n ==
    \/ SetLanguage
    \/ Lookup
    \/ Restart

I18nSpec == InitI18n /\ [][NextI18n]_vars

(* The lookup over dictionaries with missing and empty entries *)

InitLookup ==
    /\ InitAdvisorIdle
    /\ dictShape \in [Languages -> [TestKeys -> {"source", "empty", "missing"}]]
    /\ langStorage \in {NotPersisted} \cup {Persisted(l) : l \in Languages}
    /\ language = Hydrate(langStorage)
    /\ lastSet = IF langStorage.present THEN langStorage.state.language ELSE NoLanguage
    /\ prevSet = NoLanguage
    /\ restarted = FALSE
    /\ lastKey = NoKey
    /\ lastResult = NoKey

LookupSpec == InitLookup /\ [][NextI18n]_vars

----------------------------------------------------------------------------
(* Properties of the localization store *)

\* C14: lookup outputs depend only on the last language set: after
\* setLanguage('zh') then setLanguage('en') every lookup returns the 'en'
\* text again, and setLanguage(a) then setLanguage(b) leaves the store as
\* setLanguage(b) alone does.
EffectiveLast == IF lastSet = NoLanguage THEN "en" ELSE lastSet

C14_LastSetDecides ==
    /\ lastKey # NoKey => lastResult = translations[EffectiveLast][lastKey]
    /\ lastSet # NoLanguage => (language = lastSet /\ langStorage = Persisted(lastSet))

C14_Witness ==
    /\ prevSet = "zh"
    /\ lastSet = "en"
    /\ lastKey = "gameOver"
    /\ lastResult = "GAME OVER"

\* C15: lookup returns the active language's entry when it is present and
\* not empty, otherwise the 'en' entry when that is present and not empty,
\* otherwise the key itself.
PresentEntry(l, k) == k \in DOMAIN dict[l] /\ dict[l][k] # ""

C15_LookupChain ==
    lastKey # NoKey =>
        lastResult = IF PresentEntry(language, lastKey) THEN dict[language][lastKey]
                     ELSE IF PresentEntry("en", lastKey) THEN dict["en"][lastKey]
                     ELSE lastKey

C15_Witness ==
    /\ language = "zh"
    /\ lastKey = "speed"
    /\ dictShape["zh"]["speed"] = "empty"
    /\ dictShape["en"]["speed"] = "source"
    /\ lastResult = "SPEED"

\* C16: the 'en' and 'zh' dictionaries have the same keys and no empty entry,
\* so every lookup returns the active language's own entry.
C16_DictionaryComplete ==
    /\ DOMAIN dict["en"] = DOMAIN dict["zh"]
    /\ \A l \in Languages : \A k \in DOMAIN dict[l] : dict[l][k] # ""
    /\ lastKey # NoKey => lastResult = dict[language][lastKey]

C16_Witness ==
    /\ language = "zh"
    /\ lastKey = "immortal"
    /\ lastResult = "zh:immortal"

\* C17: the active language is 'en' or 'zh', is 'en' when nothing was
\* persisted, the persisted value equals the active language after every
\* setLanguage, and a restart yields the language of the last call.
C17_LanguagePersisted ==
    /\ language \in {"en", "zh"}
    /\ ~langStorage.present => language = "en"
    /\ langStorage.present => langStorage.state.language = language
    /\ lastSet # NoLanguage => language = lastSet

C17_Witness ==
    /\ restarted
    /\ prevSet = "en"
    /\ lastSet = "zh"
    /\ language = "zh"
    /\ langStorage.present

====
